---------------------------- MODULE Spec2Model ----------------------------
(***************************************************************************)
(* Model of the event bus of src/radicle/src/node/events.rs:               *)
(*   Emitter<T>  { subscribers: Arc<Mutex<Vec<chan::Sender<T>>>> }         *)
(*   Events      ( chan::Receiver<Event> )  with  Events::wait             *)
(*                                                                         *)
(* Producer threads each hold a clone of the Emitter and call emit().      *)
(* emit() takes the registry lock and runs Vec::retain over the senders,   *)
(* one try_send per element; the receive side of a channel is used by its  *)
(* consumer without the lock, so consumer steps interleave with the steps  *)
(* of a running emit().  Channels are crossbeam bounded channels: a FIFO   *)
(* queue of fixed capacity, try_send fails when the queue is full or the   *)
(* receiver is gone, a receive yields the buffered events and reports      *)
(* Disconnected only once the queue is empty and the sender is gone.       *)
(***************************************************************************)
EXTENDS Integers, Sequences, FiniteSets, TLC

(***************************************************************************)
(* Bounds of the model.                                                    *)
(***************************************************************************)
\* Capacity of each subscriber channel.  The source sets 8192
\* (events.rs:18); the model runs the same code with a small capacity.
MAX_PENDING_EVENTS == 2
\* Number of producer threads, each holding one clone of the Emitter.
NumProducers == 2
\* emit() calls per producer thread.
MaxEmits == 2
\* subscribe() calls in a run.
MaxSubscribers == 2
\* Largest timeout handed to wait(), in clock ticks.
MaxTimeout == 1
\* wait() calls per Events handle.
MaxWaits == 1
\* emit() calls of all producers together where they emit as a stream.
MaxStream == 5

Producers == 1..NumProducers
Chans == 1..MaxSubscribers

\* The state of the registry mutex after a thread panicked while holding
\* it: free, and every later lock() returns Err(PoisonError).
POISONED == NumProducers + 1

\* An event is <<producer, k>>: the k-th value emitted by that producer.
EventSet ==
    Producers \X (1..(IF MaxStream > MaxEmits THEN MaxStream ELSE MaxEmits))

\* Option<T>: None is <<>>, Some(v) is <<v>>.
None == <<>>
Some(v) == <<v>>

VARIABLES
    subscribers,  \* the registry: Vec of senders, as a sequence of channel ids
    lock,         \* holder of the registry mutex: 0 (free) or a producer,
                  \* or POISONED
    alive,        \* producers whose Emitter clone has not been dropped
    ppc,          \* producer -> "idle" | "emit" (inside emit, lock held)
                  \*             | "panicked" (its thread has unwound)
    pidx,         \* producer -> position of retain in the registry
    pev,          \* producer -> the event of the running emit
    pcount,       \* producer -> emit calls made so far
    nextChan,     \* id of the channel the next subscribe() creates
    queue,        \* channel -> buffered events, oldest first
    cpc,          \* channel -> state of its Events handle / consumer
    wait,         \* channel -> locals and result of Events::wait:
                  \*   elapsed  the value of start.elapsed(), kept while the
                  \*            call runs and no further than timeout + 1
                  \*   timeout  the timeout argument, kept while it runs
                  \*   pred     the predicate argument
                  \*   res      the result of the last call
                  \*   from     history: Len(received) when it was called
    ret,          \* value returned by the last subscriptions()/pending()
    \* history, read by the properties only
    emitted,      \* events in the order their emit() took the lock
    received,     \* channel -> events its consumer has taken, in order
    subAt,        \* channel -> Len(emitted) when subscribe() registered it
    dropAt        \* channel -> Len(emitted) when its Events was dropped

vars == <<subscribers, lock, alive, ppc, pidx, pev, pcount, nextChan, queue,
          cpc, wait, ret, emitted, received, subAt, dropAt>>

emitterVars == <<subscribers, lock, alive, ppc, pidx, pev, pcount>>
histVars == <<emitted, received, subAt, dropAt>>

------------------------------------------------------------------------------
(***************************************************************************)
(* Helpers on sequences.                                                   *)
(***************************************************************************)
Range(s) == {s[i] : i \in 1..Len(s)}

RemoveAt(s, i) == SubSeq(s, 1, i - 1) \o SubSeq(s, i + 1, Len(s))

IsSuffix(s, t) == /\ Len(s) <= Len(t)
                  /\ s = SubSeq(t, Len(t) - Len(s) + 1, Len(t))

RECURSIVE SumLen(_, _)
\* .iter().map(|ch| ch.len()).sum() over the registry
SumLen(subs, q) ==
    IF subs = <<>> THEN 0
    ELSE Len(q[Head(subs)]) + SumLen(Tail(subs), q)

------------------------------------------------------------------------------
(***************************************************************************)
(* The channel (crossbeam_channel::bounded).                               *)
(***************************************************************************)
\* The receive side exists and has not been dropped.
RxAlive(c) == cpc[c] \in {"idle", "wait", "blocked"}

\* The send side exists: senders live only in the registry.
TxAlive(c) == c \in Range(subscribers)

\* Mutant of NewQueue: a new subscription is handed the last event emitted.
NewQueueReplay ==
    IF emitted = <<>> THEN <<>> ELSE <<emitted[Len(emitted)]>>

\* chan::bounded(MAX_PENDING_EVENTS): a new channel buffers nothing.
NewQueue == <<>>

\* Mutant of TrySendOk: the buffer counts as full one slot early.
TrySendOkOffByOne(c) ==
    RxAlive(c) /\ Len(queue[c]) < MAX_PENDING_EVENTS - 1

\* Mutant of TrySendOk: a full buffer takes one more event.
TrySendOkOverfill(c) ==
    RxAlive(c) /\ Len(queue[c]) <= MAX_PENDING_EVENTS

\* Mutant of TrySendOk: only a full buffer fails the delivery.
TrySendOkIgnoreRx(c) == Len(queue[c]) < MAX_PENDING_EVENTS

\* s.try_send(ev).is_ok(): room in the buffer and a live receiver.
TrySendOk(c) == RxAlive(c) /\ Len(queue[c]) < MAX_PENDING_EVENTS

\* Mutant of Enqueue: the new event goes in front of the buffered ones.
EnqueueFront(q, ev) == <<ev>> \o q

\* The buffer after a successful send.
Enqueue(q, ev) == Append(q, ev)

------------------------------------------------------------------------------
Init ==
    /\ subscribers = <<>>
    /\ lock = 0
    /\ alive = Producers
    /\ ppc = [p \in Producers |-> "idle"]
    /\ pidx = [p \in Producers |-> 0]
    /\ pev = [p \in Producers |-> <<p, 0>>]
    /\ pcount = [p \in Producers |-> 0]
    /\ nextChan = 1
    /\ queue = [c \in Chans |-> <<>>]
    /\ cpc = [c \in Chans |-> "none"]
    /\ wait = [c \in Chans |-> [elapsed |-> 0, timeout |-> 0, pred |-> 0,
                                from |-> 0, calls |-> 0,
                                res |-> <<"none">>]]
    /\ ret = <<"none", 0>>
    /\ emitted = <<>>
    /\ received = [c \in Chans |-> <<>>]
    /\ subAt = [c \in Chans |-> 0]
    /\ dropAt = [c \in Chans |-> 0]

------------------------------------------------------------------------------
(***************************************************************************)
(* Emitter::emit (events.rs:156-163)                                       *)
(*   self.subscribers.lock().unwrap()                                      *)
(*       .retain(|s| s.try_send(event.clone()).is_ok());                   *)
(* EmitLock takes the mutex, EmitStep is one call of the retain closure,   *)
(* EmitUnlock drops the guard when retain has visited every element.       *)
(***************************************************************************)
\* Mutant of RetainStep: a failed delivery removes the sender at the head
\* of the registry.
RetainStepRemoveHead(subs, i, ok) ==
    IF ok THEN [subs |-> subs, idx |-> i + 1]
          ELSE [subs |-> Tail(subs), idx |-> i]

\* Mutant of RetainStep: after a removal the position still advances, so
\* the sender that moved into the freed slot is passed over.
RetainStepSkip(subs, i, ok) ==
    IF ok THEN [subs |-> subs, idx |-> i + 1]
          ELSE [subs |-> RemoveAt(subs, i), idx |-> i + 1]

\* Mutant of RetainStep: a failed delivery leaves the sender registered.
RetainStepKeep(subs, i, ok) == [subs |-> subs, idx |-> i + 1]

\* Mutant of RetainStep: a failed sender is moved to the back of the registry
\* to be tried again.
RetainStepRetry(subs, i, ok) ==
    IF ok THEN [subs |-> subs, idx |-> i + 1]
          ELSE [subs |-> Append(RemoveAt(subs, i), subs[i]), idx |-> i + 1]

\* One element of Vec::retain at position i: kept when the closure returned
\* true, otherwise removed (and its sender dropped) at once.
RetainStep(subs, i, ok) ==
    IF ok THEN [subs |-> subs, idx |-> i + 1]
          ELSE [subs |-> RemoveAt(subs, i), idx |-> i]

\* Mutant of EmitLock: the guard is taken out of a poisoned mutex
\* (into_inner on the PoisonError) and the emit proceeds.
EmitLockRecover(p) ==
    /\ p \in alive
    /\ ppc[p] = "idle"
    /\ pcount[p] < MaxEmits
    /\ lock \in {0, POISONED}
    /\ lock' = p
    /\ ppc' = [ppc EXCEPT ![p] = "emit"]
    /\ pidx' = [pidx EXCEPT ![p] = 1]
    /\ pev' = [pev EXCEPT ![p] = <<p, pcount[p] + 1>>]
    /\ pcount' = [pcount EXCEPT ![p] = @ + 1]
    /\ emitted' = Append(emitted, <<p, pcount[p] + 1>>)
    /\ UNCHANGED <<subscribers, alive, nextChan, queue, cpc, wait, ret,
                   received, subAt, dropAt>>

EmitLock(p) ==
    /\ p \in alive
    /\ ppc[p] = "idle"
    /\ pcount[p] < MaxEmits
    /\ lock = 0
    /\ lock' = p
    /\ ppc' = [ppc EXCEPT ![p] = "emit"]
    /\ pidx' = [pidx EXCEPT ![p] = 1]
    /\ pev' = [pev EXCEPT ![p] = <<p, pcount[p] + 1>>]
    /\ pcount' = [pcount EXCEPT ![p] = @ + 1]
    /\ emitted' = Append(emitted, <<p, pcount[p] + 1>>)
    /\ UNCHANGED <<subscribers, alive, nextChan, queue, cpc, wait, ret,
                   received, subAt, dropAt>>

\* Mutant of EmitStep: the closure uses the blocking send, which waits for
\* room while the receiver is alive.
EmitStepBlocking(p) ==
    /\ ppc[p] = "emit"
    /\ lock = p
    /\ pidx[p] <= Len(subscribers)
    /\ LET c == subscribers[pidx[p]]
           ok == RxAlive(c)
           r == RetainStep(subscribers, pidx[p], ok)
       IN /\ ok => Len(queue[c]) < MAX_PENDING_EVENTS
          /\ queue' = IF ok THEN [queue EXCEPT ![c] = Enqueue(@, pev[p])]
                            ELSE queue
          /\ subscribers' = r.subs
          /\ pidx' = [pidx EXCEPT ![p] = r.idx]
    /\ UNCHANGED <<lock, alive, ppc, pev, pcount, nextChan, cpc, wait,
                   ret, histVars>>

EmitStep(p) ==
    /\ ppc[p] = "emit"
    /\ lock = p
    /\ pidx[p] <= Len(subscribers)
    /\ LET c == subscribers[pidx[p]]
           ok == TrySendOk(c)
           r == RetainStep(subscribers, pidx[p], ok)
       IN /\ queue' = IF ok THEN [queue EXCEPT ![c] = Enqueue(@, pev[p])]
                            ELSE queue
          /\ subscribers' = r.subs
          /\ pidx' = [pidx EXCEPT ![p] = r.idx]
    /\ UNCHANGED <<lock, alive, ppc, pev, pcount, nextChan, cpc, wait,
                   ret, histVars>>

EmitUnlock(p) ==
    /\ ppc[p] = "emit"
    /\ lock = p
    /\ pidx[p] > Len(subscribers)
    /\ lock' = 0
    /\ ppc' = [ppc EXCEPT ![p] = "idle"]
    /\ pidx' = [pidx EXCEPT ![p] = 0]
    /\ UNCHANGED <<subscribers, alive, pev, pcount, nextChan, queue, cpc,
                   wait, ret, histVars>>

\* emit() by a producer of a stream: the call of EmitLock, for a producer
\* that emits as long as the stream lasts.  The stream is MaxStream emit()
\* calls long, whichever producers make them.
StreamLock(p) ==
    /\ p \in alive
    /\ ppc[p] = "idle"
    /\ Len(emitted) < MaxStream
    /\ lock = 0
    /\ lock' = p
    /\ ppc' = [ppc EXCEPT ![p] = "emit"]
    /\ pidx' = [pidx EXCEPT ![p] = 1]
    /\ pev' = [pev EXCEPT ![p] = <<p, pcount[p] + 1>>]
    /\ pcount' = [pcount EXCEPT ![p] = @ + 1]
    /\ emitted' = Append(emitted, <<p, pcount[p] + 1>>)
    /\ UNCHANGED <<subscribers, alive, nextChan, queue, cpc, wait, ret,
                   received, subAt, dropAt>>

(***************************************************************************)
(* Emitter::subscribe (events.rs:166-174)                                  *)
(***************************************************************************)
\* Mutant of Subscribe: senders whose receiver is gone are swept out when a
\* new one is registered.
SubscribePrune ==
    /\ alive # {}
    /\ lock = 0
    /\ nextChan <= MaxSubscribers
    /\ LET c == nextChan
           live(x) == RxAlive(x)
       IN /\ queue' = [queue EXCEPT ![c] = NewQueue]
          /\ subscribers' = Append(SelectSeq(subscribers, live), c)
          /\ cpc' = [cpc EXCEPT ![c] = "idle"]
          /\ subAt' = [subAt EXCEPT ![c] = Len(emitted)]
    /\ nextChan' = nextChan + 1
    /\ UNCHANGED <<lock, alive, ppc, pidx, pev, pcount, wait, ret,
                   emitted, received, dropAt>>

Subscribe ==
    /\ alive # {}
    /\ lock = 0
    /\ nextChan <= MaxSubscribers
    /\ LET c == nextChan
       IN /\ queue' = [queue EXCEPT ![c] = NewQueue]
          /\ subscribers' = Append(subscribers, c)
          /\ cpc' = [cpc EXCEPT ![c] = "idle"]
          /\ subAt' = [subAt EXCEPT ![c] = Len(emitted)]
    /\ nextChan' = nextChan + 1
    /\ UNCHANGED <<lock, alive, ppc, pidx, pev, pcount, wait, ret,
                   emitted, received, dropAt>>

(***************************************************************************)
(* Emitter::subscriptions (events.rs:177-181) and Emitter::pending         *)
(* (events.rs:184-193).  Both run under the registry lock, so neither      *)
(* overlaps an emit; ret records the value the call returned.  Consumers   *)
(* may take events while pending() adds up the lengths: the buffers of     *)
(* registered channels only shrink meanwhile, one event at a time, so the  *)
(* sum returned is the backlog at some instant of the call.                *)
(***************************************************************************)
subscriptions == Len(subscribers)

\* Mutant of pending: every channel ever created is counted.
pendingAllChannels == SumLen([i \in 1..(nextChan - 1) |-> i], queue)

pending == SumLen(subscribers, queue)

Subscriptions ==
    /\ alive # {}
    /\ lock = 0
    /\ ret' = <<"subscriptions", subscriptions>>
    /\ UNCHANGED <<emitterVars, nextChan, queue, cpc, wait, histVars>>

Pending ==
    /\ alive # {}
    /\ lock = 0
    /\ ret' = <<"pending", pending>>
    /\ UNCHANGED <<emitterVars, nextChan, queue, cpc, wait, histVars>>

(***************************************************************************)
(* Drop of an Emitter clone (events.rs:140-143): the registry is behind an *)
(* Arc, so the Vec and its senders are dropped with the last clone.        *)
(***************************************************************************)
\* Mutant of DropEmitter: every drop of a clone drops the senders.
DropEmitterClosesAll(p) ==
    /\ p \in alive
    /\ ppc[p] = "idle"
    /\ alive' = alive \ {p}
    /\ subscribers' = <<>>
    /\ UNCHANGED <<lock, ppc, pidx, pev, pcount, nextChan, queue, cpc,
                   wait, ret, histVars>>

DropEmitter(p) ==
    /\ p \in alive
    /\ ppc[p] = "idle"
    /\ alive' = alive \ {p}
    /\ subscribers' = IF alive' = {} THEN <<>> ELSE subscribers
    /\ UNCHANGED <<lock, ppc, pidx, pev, pcount, nextChan, queue, cpc,
                   wait, ret, histVars>>

(***************************************************************************)
(* Panics under the registry lock.  Every operation takes the lock with    *)
(* .lock().unwrap() (events.rs:160, 170, 180, 188): a thread that panics   *)
(* while it holds the guard poisons the mutex, and the unwrap of every     *)
(* later lock() panics in its caller.  Inside emit the code that can panic *)
(* under the lock is event.clone(), called once per registered sender.     *)
(***************************************************************************)
\* event.clone() panics in the closure of retain: the thread unwinds, the
\* guard is dropped and marks the mutex poisoned.  retain leaves the Vec
\* with the senders kept so far and those not yet visited.
EmitPanic(p) ==
    /\ ppc[p] = "emit"
    /\ lock = p
    /\ pidx[p] <= Len(subscribers)
    /\ lock' = POISONED
    /\ ppc' = [ppc EXCEPT ![p] = "panicked"]
    /\ pidx' = [pidx EXCEPT ![p] = 0]
    /\ UNCHANGED <<subscribers, alive, pev, pcount, nextChan, queue, cpc,
                   wait, ret, histVars>>

\* emit() on a poisoned registry: lock().unwrap() panics (events.rs:160).
EmitFault(p) ==
    /\ p \in alive
    /\ ppc[p] = "idle"
    /\ pcount[p] < MaxEmits
    /\ lock = POISONED
    /\ ppc' = [ppc EXCEPT ![p] = "panicked"]
    /\ UNCHANGED <<subscribers, lock, alive, pidx, pev, pcount, nextChan,
                   queue, cpc, wait, ret, histVars>>

\* subscribe() on a poisoned registry (events.rs:170): the channel it has
\* created is dropped by the unwinding, nothing is registered.
SubscribeFault ==
    /\ alive # {}
    /\ lock = POISONED
    /\ nextChan <= MaxSubscribers
    /\ ret' = <<"subscribe panicked", 0>>
    /\ UNCHANGED <<emitterVars, nextChan, queue, cpc, wait, histVars>>

\* subscriptions() on a poisoned registry (events.rs:180).
SubscriptionsFault ==
    /\ alive # {}
    /\ lock = POISONED
    /\ ret' = <<"subscriptions panicked", 0>>
    /\ UNCHANGED <<emitterVars, nextChan, queue, cpc, wait, histVars>>

\* pending() on a poisoned registry (events.rs:188).
PendingFault ==
    /\ alive # {}
    /\ lock = POISONED
    /\ ret' = <<"pending panicked", 0>>
    /\ UNCHANGED <<emitterVars, nextChan, queue, cpc, wait, histVars>>

------------------------------------------------------------------------------
(***************************************************************************)
(* The Events handle (events.rs:82-105): recv through Deref, iteration,    *)
(* and drop.                                                               *)
(***************************************************************************)
\* The consumer takes the oldest buffered event.
Recv(c) ==
    /\ cpc[c] = "idle"
    /\ queue[c] # <<>>
    /\ queue' = [queue EXCEPT ![c] = Tail(@)]
    /\ received' = [received EXCEPT ![c] = Append(@, Head(queue[c]))]
    /\ UNCHANGED <<emitterVars, nextChan, cpc, wait, ret, emitted,
                   subAt, dropAt>>

\* The iteration over the handle ends (events.rs:84-91, the iterator of
\* chan::Receiver): its next() finds the channel empty and without sender.
\* While a sender exists an empty channel parks the iterator instead.
IterEnd(c) ==
    /\ cpc[c] = "idle"
    /\ queue[c] = <<>>
    /\ ~TxAlive(c)
    /\ cpc' = [cpc EXCEPT ![c] = "ended"]
    /\ UNCHANGED <<emitterVars, nextChan, queue, wait, ret, histVars>>

\* Drop of the handle.  Whether the channel discards the events still
\* buffered when its last receiver goes away depends on the version of
\* crossbeam-channel the build links: both outcomes are modelled.
DropEvents(c, discard) ==
    /\ cpc[c] = "idle"
    /\ cpc' = [cpc EXCEPT ![c] = "dropped"]
    /\ queue' = IF discard THEN [queue EXCEPT ![c] = <<>>] ELSE queue
    /\ dropAt' = [dropAt EXCEPT ![c] = Len(emitted)]
    /\ UNCHANGED <<emitterVars, nextChan, wait, ret, emitted, received,
                   subAt>>

------------------------------------------------------------------------------
(***************************************************************************)
(* Events::wait (events.rs:110-136).                                       *)
(***************************************************************************)
\* The caller's predicate f: &Event -> Option<T>.  The callers modelled
\* look for an event of one producer t and yield its sequence number.
F(t, ev) == IF ev[1] = t THEN Some(ev[2]) ELSE None

\* Mutant of CheckedSub: no budget is left once the elapsed time has reached
\* the timeout.
CheckedSubStrict(a, b) == IF a > b THEN Some(a - b) ELSE None

\* Mutant of CheckedSub: the subtraction saturates at zero, there is always
\* a budget.
CheckedSubSaturating(a, b) == IF a >= b THEN Some(a - b) ELSE Some(0)

\* time::Duration::checked_sub, as in timeout.checked_sub(start.elapsed()):
\* None only when more than the timeout has elapsed, Some(0) when exactly the
\* timeout has.
CheckedSub(a, b) == IF a >= b THEN Some(a - b) ELSE None

\* Mutant of RecvTimeout: a deadline that has come is reported as a
\* disconnect.
RecvTimeoutDeadlineDisconnects(c, left) ==
    IF queue[c] # <<>> THEN "ok"
    ELSE IF ~TxAlive(c) \/ left <= 0 THEN "disconnected"
    ELSE "block"

\* Mutant of RecvTimeout: a channel whose sender is gone is waited on like
\* any other, until the deadline.
RecvTimeoutNoDisconnect(c, left) ==
    IF queue[c] # <<>> THEN "ok"
    ELSE IF left <= 0 THEN "timeout"
    ELSE "block"

\* self.recv_timeout(..) when `left` remains until its deadline: what the
\* call does in the current state.  The buffer is tried first, also when
\* the deadline has passed; "block" is the parked thread.
RecvTimeout(c, left) ==
    IF queue[c] # <<>> THEN "ok"
    ELSE IF ~TxAlive(c) THEN "disconnected"
    ELSE IF left <= 0 THEN "timeout"
    ELSE "block"

\* The events the running (or last) wait of c has received.
Seen(c) == SubSeq(received[c], wait[c].from + 1, Len(received[c]))

\* wait returns r: its locals go out of scope.
Return(c, r) == [wait[c] EXCEPT !.res = r, !.elapsed = 0, !.timeout = 0]

\* let start = time::Instant::now();  The clock has moved on when the loop
\* reads start.elapsed(): the value is positive, above a timeout of zero and
\* below a timeout of one tick or more.
WaitCall(c, t, timeout) ==
    /\ cpc[c] = "idle"
    /\ wait[c].calls < MaxWaits
    /\ cpc' = [cpc EXCEPT ![c] = "wait"]
    /\ wait' = [wait EXCEPT ![c] = [elapsed |-> IF timeout = 0 THEN 1 ELSE 0,
                                    timeout |-> timeout,
                                    pred |-> t, from |-> Len(received[c]),
                                    calls |-> @.calls + 1,
                                    res |-> <<"none">>]]
    /\ UNCHANGED <<emitterVars, nextChan, queue, ret, histVars>>

\* Mutant of WaitMatch: the event the predicate accepts is looked at but
\* left in the channel.
WaitMatchPeek(c, o) ==
    CASE o = "ok" ->
           LET ev == Head(queue[c])
               out == F(wait[c].pred, ev)
           IN /\ received' = [received EXCEPT ![c] = Append(@, ev)]
              /\ IF out # None
                 THEN /\ wait' = [wait EXCEPT
                                    ![c] = Return(c, <<"ok", out[1]>>)]
                      /\ cpc' = [cpc EXCEPT ![c] = "idle"]
                      /\ UNCHANGED queue
                 ELSE /\ cpc' = [cpc EXCEPT ![c] = "wait"]
                      /\ queue' = [queue EXCEPT ![c] = Tail(@)]
                      /\ UNCHANGED wait
      [] o = "disconnected" ->
           /\ wait' = [wait EXCEPT ![c] = Return(c, <<"disconnected">>)]
           /\ cpc' = [cpc EXCEPT ![c] = "idle"]
           /\ UNCHANGED <<queue, received>>
      [] o = "timeout" ->
           /\ cpc' = [cpc EXCEPT ![c] = "wait"]
           /\ wait' = [wait EXCEPT ![c].elapsed = wait[c].timeout + 1]
           /\ UNCHANGED <<queue, received>>

\* Mutant of WaitMatch: the budget starts again with every event the
\* predicate rejects.
WaitMatchRestart(c, o) ==
    CASE o = "ok" ->
           LET ev == Head(queue[c])
               out == F(wait[c].pred, ev)
           IN /\ queue' = [queue EXCEPT ![c] = Tail(@)]
              /\ received' = [received EXCEPT ![c] = Append(@, ev)]
              /\ IF out # None
                 THEN /\ wait' = [wait EXCEPT
                                    ![c] = Return(c, <<"ok", out[1]>>)]
                      /\ cpc' = [cpc EXCEPT ![c] = "idle"]
                 ELSE /\ cpc' = [cpc EXCEPT ![c] = "wait"]
                      /\ wait' = [wait EXCEPT ![c].elapsed = 0]
      [] o = "disconnected" ->
           /\ wait' = [wait EXCEPT ![c] = Return(c, <<"disconnected">>)]
           /\ cpc' = [cpc EXCEPT ![c] = "idle"]
           /\ UNCHANGED <<queue, received>>
      [] o = "timeout" ->
           /\ cpc' = [cpc EXCEPT ![c] = "wait"]
           /\ wait' = [wait EXCEPT ![c].elapsed = wait[c].timeout + 1]
           /\ UNCHANGED <<queue, received>>

\* Mutant of WaitMatch: the first event received ends the wait, whatever
\* the predicate says of it.
WaitMatchAny(c, o) ==
    CASE o = "ok" ->
           LET ev == Head(queue[c])
           IN /\ queue' = [queue EXCEPT ![c] = Tail(@)]
              /\ received' = [received EXCEPT ![c] = Append(@, ev)]
              /\ wait' = [wait EXCEPT ![c] = Return(c, <<"ok", ev[2]>>)]
              /\ cpc' = [cpc EXCEPT ![c] = "idle"]
      [] o = "disconnected" ->
           /\ wait' = [wait EXCEPT ![c] = Return(c, <<"disconnected">>)]
           /\ cpc' = [cpc EXCEPT ![c] = "idle"]
           /\ UNCHANGED <<queue, received>>
      [] o = "timeout" ->
           /\ cpc' = [cpc EXCEPT ![c] = "wait"]
           /\ wait' = [wait EXCEPT ![c].elapsed = wait[c].timeout + 1]
           /\ UNCHANGED <<queue, received>>

\* The arms of `match self.recv_timeout(timeout)` for outcome o.  The receive
\* reports Timeout at its deadline or later, and the deadline is set after
\* start.elapsed() was read: when the loop reads the clock again more than
\* the timeout has elapsed.
WaitMatch(c, o) ==
    CASE o = "ok" ->
           LET ev == Head(queue[c])
               out == F(wait[c].pred, ev)
           IN /\ queue' = [queue EXCEPT ![c] = Tail(@)]
              /\ received' = [received EXCEPT ![c] = Append(@, ev)]
              /\ IF out # None
                 THEN /\ wait' = [wait EXCEPT
                                    ![c] = Return(c, <<"ok", out[1]>>)]
                      /\ cpc' = [cpc EXCEPT ![c] = "idle"]
                 ELSE /\ cpc' = [cpc EXCEPT ![c] = "wait"]
                      /\ UNCHANGED wait
      [] o = "disconnected" ->
           /\ wait' = [wait EXCEPT ![c] = Return(c, <<"disconnected">>)]
           /\ cpc' = [cpc EXCEPT ![c] = "idle"]
           /\ UNCHANGED <<queue, received>>
      [] o = "timeout" ->
           /\ cpc' = [cpc EXCEPT ![c] = "wait"]
           /\ wait' = [wait EXCEPT ![c].elapsed = wait[c].timeout + 1]
           /\ UNCHANGED <<queue, received>>

\* One pass of the loop up to the point where recv_timeout returns or parks.
WaitPass(c) ==
    /\ cpc[c] = "wait"
    /\ LET remaining == CheckedSub(wait[c].timeout, wait[c].elapsed)
       IN IF remaining = None
          THEN /\ wait' = [wait EXCEPT ![c] = Return(c, <<"timeout">>)]
               /\ cpc' = [cpc EXCEPT ![c] = "idle"]
               /\ UNCHANGED <<queue, received>>
          ELSE LET o == RecvTimeout(c, remaining[1])
               IN IF o = "block"
                  THEN /\ cpc' = [cpc EXCEPT ![c] = "blocked"]
                       /\ UNCHANGED <<queue, received, wait>>
                  ELSE WaitMatch(c, o)
    /\ UNCHANGED <<emitterVars, nextChan, ret, emitted, subAt, dropAt>>

\* The parked recv_timeout returns: an event, a disconnect, or its deadline
\* (the start of the wait plus the timeout) has come.
WaitWake(c) ==
    /\ cpc[c] = "blocked"
    /\ LET o == RecvTimeout(c, wait[c].timeout - wait[c].elapsed)
       IN /\ o # "block"
          /\ WaitMatch(c, o)
    /\ UNCHANGED <<emitterVars, nextChan, ret, emitted, subAt, dropAt>>

\* Time passes for every running wait.  The code compares the elapsed time
\* with the timeout only, so it is counted up to timeout + 1; the clock is
\* not modelled while no wait has budget left to lose.
Tick ==
    /\ \E c \in Chans : /\ cpc[c] \in {"wait", "blocked"}
                        /\ wait[c].elapsed <= wait[c].timeout
    /\ wait' = [c \in Chans |->
                  IF /\ cpc[c] \in {"wait", "blocked"}
                     /\ wait[c].elapsed <= wait[c].timeout
                  THEN [wait[c] EXCEPT !.elapsed = @ + 1]
                  ELSE wait[c]]
    /\ UNCHANGED <<emitterVars, nextChan, queue, cpc, ret, histVars>>

------------------------------------------------------------------------------
(***************************************************************************)
(* Spec: the Emitter and its subscribers (emit, subscribe, subscriptions,  *)
(* pending, receive, drop of a handle) while the Emitter lives.            *)
(***************************************************************************)
Next ==
    \/ \E p \in Producers : EmitLock(p)
    \/ \E p \in Producers : EmitStep(p)
    \/ \E p \in Producers : EmitUnlock(p)
    \/ Subscribe
    \/ Subscriptions
    \/ Pending
    \/ \E c \in Chans : Recv(c)
    \/ \E c \in Chans, discard \in BOOLEAN : DropEvents(c, discard)

Spec == Init /\ [][Next]_vars

(***************************************************************************)
(* WaitSpec: consumers that call Events::wait, with the clock, while       *)
(* producers emit and drop their Emitter clones.                           *)
(***************************************************************************)
NextWait ==
    \/ \E p \in Producers : EmitLock(p)
    \/ \E p \in Producers : EmitStep(p)
    \/ \E p \in Producers : EmitUnlock(p)
    \/ Subscribe
    \/ \E p \in Producers : DropEmitter(p)
    \/ \E c \in Chans, t \in Producers, timeout \in 0..MaxTimeout :
           WaitCall(c, t, timeout)
    \/ \E c \in Chans : WaitPass(c)
    \/ \E c \in Chans : WaitWake(c)
    \/ Tick

WaitSpec == Init /\ [][NextWait]_vars

(***************************************************************************)
(* IterSpec: consumers that iterate over their handle, while producers     *)
(* emit and drop their Emitter clones.                                     *)
(***************************************************************************)
NextIter ==
    \/ \E p \in Producers : EmitLock(p)
    \/ \E p \in Producers : EmitStep(p)
    \/ \E p \in Producers : EmitUnlock(p)
    \/ Subscribe
    \/ \E p \in Producers : DropEmitter(p)
    \/ \E c \in Chans : Recv(c)
    \/ \E c \in Chans : IterEnd(c)

IterSpec == Init /\ [][NextIter]_vars

(***************************************************************************)
(* PoisonSpec: producers whose event can panic when it is duplicated,      *)
(* callers of the other operations, and consumers that receive.            *)
(***************************************************************************)
NextPoison ==
    \/ \E p \in Producers : EmitLock(p)
    \/ \E p \in Producers : EmitStep(p)
    \/ \E p \in Producers : EmitUnlock(p)
    \/ \E p \in Producers : EmitPanic(p)
    \/ \E p \in Producers : EmitFault(p)
    \/ Subscribe
    \/ SubscribeFault
    \/ Subscriptions
    \/ SubscriptionsFault
    \/ Pending
    \/ PendingFault
    \/ \E c \in Chans : Recv(c)

PoisonSpec == Init /\ [][NextPoison]_vars

(***************************************************************************)
(* StreamSpec: consumers that call Events::wait while the producers emit   *)
(* a stream of events, with the scheduling the code runs under: the thread *)
(* inside wait keeps running (its pass, and its wake-up from the parked    *)
(* receive, are taken when they stay possible) and the clock advances.     *)
(* The waits look for an event of the first producer: the stream of any    *)
(* other producer is one their predicate never accepts.                    *)
(***************************************************************************)
NextStream ==
    \/ \E p \in Producers : StreamLock(p)
    \/ \E p \in Producers : EmitStep(p)
    \/ \E p \in Producers : EmitUnlock(p)
    \/ Subscribe
    \/ \E c \in Chans, timeout \in 0..MaxTimeout : WaitCall(c, 1, timeout)
    \/ \E c \in Chans : WaitPass(c)
    \/ \E c \in Chans : WaitWake(c)
    \/ Tick

StreamSpec ==
    /\ Init
    /\ [][NextStream]_vars
    /\ WF_vars(Tick)
    /\ \A c \in Chans : WF_vars(WaitPass(c)) /\ WF_vars(WaitWake(c))

------------------------------------------------------------------------------
(***************************************************************************)
(* Definitions shared by the properties.                                   *)
(***************************************************************************)
\* subscribe() has created channel c.
Created(c) == c < nextChan

\* Everything delivered to c and not discarded: consumed, then buffered.
Delivered(c) == received[c] \o queue[c]

\* The events of the emit calls that took the lock after c was registered.
EmittedSince(c) == SubSeq(emitted, subAt[c] + 1, Len(emitted))

\* Position of an event in the serialization order of the emit calls.
Pos(ev) == CHOOSE k \in 1..Len(emitted) : emitted[k] = ev

\* Nobody has consumed from c and its handle is alive.
Untouched(c) == Created(c) /\ RxAlive(c) /\ received[c] = <<>>

\* Position of a registered channel's sender in the registry.
Index(c) == CHOOSE i \in 1..Len(subscribers) : subscribers[i] = c

RECURSIVE BacklogOf(_)
\* Number of events buffered in the channels of the set S.
BacklogOf(S) ==
    IF S = {} THEN 0
    ELSE LET c == CHOOSE x \in S : TRUE
         IN Len(queue[c]) + BacklogOf(S \ {c})

------------------------------------------------------------------------------
(***************************************************************************)
(* C1.  Subscribers created before events e1..ek are emitted (k <= the     *)
(* capacity) each get exactly e1..ek, once each, in emit order, whatever   *)
(* the other subscribers consume: once the emit calls have returned, what  *)
(* a live subscriber has consumed followed by what it still buffers is the *)
(* sequence of events emitted since its subscribe().                       *)
(***************************************************************************)
C1_EachSubscriberGetsAll ==
    \A c \in Chans :
        ( /\ Created(c)
          /\ RxAlive(c)
          /\ lock = 0
          /\ Len(emitted) - subAt[c] <= MAX_PENDING_EVENTS )
        => Delivered(c) = EmittedSince(c)

\* Two subscribers registered before the first emit, as many events as the
\* capacity emitted with nothing consumed meanwhile by the second one, and
\* the first one has iterated over all of them.
C1_Witness ==
    /\ nextChan > 2
    /\ subAt[1] = 0 /\ subAt[2] = 0
    /\ lock = 0
    /\ Len(emitted) = MAX_PENDING_EVENTS
    /\ RxAlive(1) /\ received[1] = emitted /\ queue[1] = <<>>
    /\ RxAlive(2) /\ received[2] = <<>> /\ queue[2] = emitted

(***************************************************************************)
(* C2.  A subscription sees no event of an emit that took the lock before  *)
(* its subscribe(): every event delivered to it was emitted after it was   *)
(* registered.  An emit that finds the registry empty changes neither the  *)
(* registry nor any channel, and returns.                                  *)
(***************************************************************************)
C2_OnlyLaterEvents ==
    \A c \in Chans :
        Created(c) =>
            \A i \in 1..Len(Delivered(c)) :
                \E k \in (subAt[c] + 1)..Len(emitted) :
                    emitted[k] = Delivered(c)[i]

C2_EmptyEmitReturns ==
    \A p \in Producers :
        (ppc[p] = "emit" /\ subscribers = <<>>) => ENABLED EmitUnlock(p)

C2_EmptyEmitChangesNothing ==
    \A p \in Producers :
        (subscribers = <<>> /\ (EmitLock(p) \/ EmitStep(p) \/ EmitUnlock(p)))
        => UNCHANGED <<subscribers, queue, cpc, nextChan>>

C2_NoReplay ==
    /\ [](C2_OnlyLaterEvents /\ C2_EmptyEmitReturns)
    /\ [][C2_EmptyEmitChangesNothing]_vars

\* The first subscribe came after an emit that found no subscriber, a
\* second one after further emits, and both have taken events since.
C2_Witness ==
    /\ nextChan > 2
    /\ subAt[1] >= 1
    /\ subAt[2] > subAt[1]
    /\ received[1] # <<>>
    /\ received[2] # <<>>

(***************************************************************************)
(* C3.  With producers emitting concurrently, every subscriber gets its    *)
(* events in the order in which the emit calls were performed (the order   *)
(* in which they took the registry lock), and two events of one producer   *)
(* never arrive in reversed order.                                         *)
(***************************************************************************)
C3_FifoPerChannel ==
    \A c \in Chans :
        Created(c) =>
            \A i, j \in 1..Len(Delivered(c)) :
                i < j =>
                    LET a == Delivered(c)[i]
                        b == Delivered(c)[j]
                    IN /\ Pos(a) < Pos(b)
                       /\ (a[1] = b[1] => a[2] < b[2])

\* A subscriber that has consumed events of both producers while a third
\* emit is being delivered.
C3_Witness ==
    \E c \in Chans :
        /\ Len(received[c]) >= 2
        /\ received[c][1][1] # received[c][2][1]
        /\ queue[c] # <<>>
        /\ lock # 0

(***************************************************************************)
(* C4.  A subscriber whose buffer holds as many unconsumed events as its   *)
(* capacity is dropped by one more emit.                                   *)
(* As stated: the registry still counts it when the overflowing emit has   *)
(* returned, and only the emit after that removes it.                      *)
(***************************************************************************)
C4_StillCountedAfterOverflow ==
    \A c \in Chans :
        ( /\ Untouched(c)
          /\ lock = 0
          /\ Len(emitted) - subAt[c] = MAX_PENDING_EVENTS + 1 )
        => /\ c \in Range(subscribers)
           /\ subscriptions >= 1

(***************************************************************************)
(* C4 as amended: the overflowing emit itself removes the subscriber.      *)
(* While no more events than the capacity were emitted to an unconsumed    *)
(* subscriber it is registered; once one more emit has returned it is not, *)
(* and subscriptions() no longer counts it (with a single subscriber:      *)
(* capacity emits leave subscriptions() = 1, one more leaves 0).           *)
(***************************************************************************)
C4_PrunedByOverflowingEmit ==
    \A c \in Chans :
        (Untouched(c) /\ lock = 0) =>
            LET k == Len(emitted) - subAt[c]
            IN /\ k <= MAX_PENDING_EVENTS =>
                    /\ c \in Range(subscribers)
                    /\ Len(queue[c]) = k
               /\ k > MAX_PENDING_EVENTS =>
                    /\ c \notin Range(subscribers)
                    /\ Len(queue[c]) = MAX_PENDING_EVENTS
               /\ nextChan = 2 =>
                    subscriptions = IF k <= MAX_PENDING_EVENTS THEN 1 ELSE 0

\* The only subscriber, nothing consumed, and the overflowing emit has just
\* returned: subscriptions() is already 0.
C4_Witness ==
    /\ nextChan = 2
    /\ Untouched(1)
    /\ lock = 0
    /\ Len(emitted) - subAt[1] = MAX_PENDING_EVENTS + 1
    /\ subscriptions = 0

(***************************************************************************)
(* C5.  A delivery that fails removes the subscriber from the registry,    *)
(* and a removed subscriber is never registered again and is sent nothing  *)
(* more: its buffer can only lose events, also once its consumer has made  *)
(* room.                                                                   *)
(***************************************************************************)
C5_Step ==
    \A c \in Chans :
        Created(c) =>
            /\ (\E p \in Producers :
                    /\ EmitStep(p)
                    /\ subscribers[pidx[p]] = c
                    /\ ~TrySendOk(c))
               => c \notin Range(subscribers')
            /\ c \notin Range(subscribers)
               => /\ c \notin Range(subscribers')
                  /\ IsSuffix(queue'[c], queue[c])

C5_RemovedForGood == [][C5_Step]_vars

\* A pruned subscriber whose consumer has drained the buffer while another
\* emit is running.
C5_Witness ==
    \E c \in Chans :
        /\ Created(c)
        /\ RxAlive(c)
        /\ c \notin Range(subscribers)
        /\ queue[c] = <<>>
        /\ Len(received[c]) = MAX_PENDING_EVENTS
        /\ lock # 0
        /\ subscribers # <<>>

(***************************************************************************)
(* C6.  Dropping an Events handle is noticed lazily.  The drop leaves the  *)
(* registry, and so subscriptions(), as it was; a dropped subscriber       *)
(* leaves the registry only in the step of an emit that tries to deliver   *)
(* to it; and the first emit called after the drop removes it: a dropped   *)
(* subscriber still registered has seen no emit called after its drop      *)
(* return, nor pass its position.                                          *)
(***************************************************************************)
C6_NextEmitPrunes ==
    \A c \in Chans :
        (cpc[c] = "dropped" /\ c \in Range(subscribers)) =>
            \/ dropAt[c] = Len(emitted)
            \/ /\ lock # 0
               /\ dropAt[c] = Len(emitted) - 1
               /\ Index(c) >= pidx[lock]

C6_Step ==
    \A c \in Chans :
        /\ (\E discard \in BOOLEAN : DropEvents(c, discard))
           => /\ subscribers' = subscribers
              /\ c \in Range(subscribers) => c \in Range(subscribers')
        /\ (cpc[c] = "dropped" /\ c \in Range(subscribers)
                               /\ c \notin Range(subscribers'))
           => \E p \in Producers : EmitStep(p) /\ subscribers[pidx[p]] = c

C6_DropDetectedLazily == []C6_NextEmitPrunes /\ [][C6_Step]_vars

\* A subscriber that never overflowed, was dropped while registered, and
\* has been removed by the one emit called since.
C6_Witness ==
    \E c \in Chans :
        /\ cpc[c] = "dropped"
        /\ received[c] = <<>>
        /\ dropAt[c] - subAt[c] < MAX_PENDING_EVENTS
        /\ Len(emitted) = dropAt[c] + 1
        /\ lock = 0
        /\ c \notin Range(subscribers)

(***************************************************************************)
(* C7.  emit, subscribe, subscriptions and pending never wait on a         *)
(* consumer.  Whatever the buffers and consumers are doing: the thread in  *)
(* emit holds the lock and can take its next step; every step under the    *)
(* lock uses up one registry entry, so the lock is released after at most  *)
(* as many non-blocking steps as there are entries; and with the lock free *)
(* each of the four calls can proceed.                                     *)
(***************************************************************************)
C7_LockHolderRuns ==
    \A p \in Producers :
        ppc[p] = "emit" =>
            /\ lock = p
            /\ ENABLED EmitStep(p) \/ ENABLED EmitUnlock(p)

C7_LockOwner ==
    lock # 0 => \A q \in Producers : ppc[q] = "emit" <=> q = lock

C7_CallsNeedOnlyLock ==
    lock = 0 =>
        /\ ENABLED Subscriptions
        /\ ENABLED Pending
        /\ nextChan <= MaxSubscribers => ENABLED Subscribe
        /\ \A p \in Producers :
               (p \in alive /\ pcount[p] < MaxEmits) => ENABLED EmitLock(p)

C7_EmitProgress ==
    \A p \in Producers :
        EmitStep(p) =>
            Len(subscribers') - pidx'[p] < Len(subscribers) - pidx[p]

C7_NeverWaitsOnConsumer ==
    /\ [](C7_LockHolderRuns /\ C7_LockOwner /\ C7_CallsNeedOnlyLock)
    /\ [][C7_EmitProgress]_vars

\* An emit is about to deliver to a subscriber whose buffer is full and
\* whose consumer takes nothing, while another consumer has an empty buffer
\* to wait on and the other producer is waiting for the lock.
C7_Witness ==
    /\ lock # 0
    /\ pidx[lock] <= Len(subscribers)
    /\ LET c == subscribers[pidx[lock]]
       IN /\ RxAlive(c)
          /\ Len(queue[c]) = MAX_PENDING_EVENTS
    /\ \E c2 \in Range(subscribers) : RxAlive(c2) /\ queue[c2] = <<>>
    /\ \E q \in Producers : q # lock /\ pcount[q] < MaxEmits

(***************************************************************************)
(* C8.  pending() is the number of events buffered in the channels of the  *)
(* subscribers now registered; events left in the channel of a pruned      *)
(* subscriber do not count.  After as many emits as the capacity to one    *)
(* fresh subscriber that consumes nothing, pending() is the capacity.      *)
(***************************************************************************)
C8_FreshFull ==
    ( /\ nextChan = 2
      /\ Untouched(1)
      /\ lock = 0
      /\ Len(emitted) - subAt[1] = MAX_PENDING_EVENTS )
    => pending = MAX_PENDING_EVENTS

C8_SumOverRegistered == pending = BacklogOf(Range(subscribers))

C8_Returned == Pending => ret' = <<"pending", BacklogOf(Range(subscribers))>>

C8_PendingCountsRegistered ==
    /\ [](C8_FreshFull /\ C8_SumOverRegistered)
    /\ [][C8_Returned]_vars

\* pending() has just returned the capacity: the backlog of a subscriber
\* that took as many emits as its capacity, while the full buffer of a
\* pruned subscriber is left out.
C8_Witness ==
    /\ ret = <<"pending", MAX_PENDING_EVENTS>>
    /\ pending = MAX_PENDING_EVENTS
    /\ lock = 0
    /\ \E c \in Chans :
           /\ Untouched(c)
           /\ c \in Range(subscribers)
           /\ Len(emitted) - subAt[c] = MAX_PENDING_EVENTS
    /\ \E c \in Chans :
           /\ Created(c)
           /\ c \notin Range(subscribers)
           /\ Len(queue[c]) = MAX_PENDING_EVENTS

(***************************************************************************)
(* C9.  The size of the registry changes in two ways only.  It grows by    *)
(* one, by subscribe() appending the new sender and keeping every entry    *)
(* (those of dropped receivers too); it shrinks by one, by an emit         *)
(* removing the entry it has just failed to deliver to.  subscriptions(),  *)
(* pending(), a receive and the drop of a handle leave the registry as it  *)
(* is.                                                                     *)
(***************************************************************************)
C9_Step ==
    /\ Subscribe => subscribers' = Append(subscribers, nextChan)
    /\ Len(subscribers') > Len(subscribers)
       => /\ nextChan' = nextChan + 1
          /\ subscribers' = Append(subscribers, nextChan)
    /\ Len(subscribers') < Len(subscribers)
       => /\ lock # 0
          /\ ppc[lock] = "emit"
          /\ pidx[lock] <= Len(subscribers)
          /\ ~TrySendOk(subscribers[pidx[lock]])
          /\ subscribers' = RemoveAt(subscribers, pidx[lock])
    /\ Len(subscribers') = Len(subscribers) => subscribers' = subscribers
    /\ ( \/ Subscriptions
         \/ Pending
         \/ \E c \in Chans : Recv(c)
         \/ \E c \in Chans, discard \in BOOLEAN : DropEvents(c, discard) )
       => subscribers' = subscribers

C9_RegistrySizeFrame == [][C9_Step]_vars

\* Two entries in the registry, the first of a handle that was dropped, and
\* subscriptions() has reported both.
C9_Witness ==
    /\ Len(subscribers) = 2
    /\ cpc[subscribers[1]] = "dropped"
    /\ RxAlive(subscribers[2])
    /\ ret = <<"subscriptions", 2>>

(***************************************************************************)
(* C10.  wait(p, timeout) applies p to the events in arrival order and     *)
(* returns Ok(v) for the first event on which p yields a value v: every    *)
(* event it received before that one was rejected by p, and an event p     *)
(* accepts is never passed over.  A pass that runs before the timeout has  *)
(* elapsed takes the oldest buffered event, and a timeout is reported only *)
(* once more than the timeout has elapsed.                                 *)
(***************************************************************************)
C10_FirstMatch ==
    \A c \in Chans :
        Created(c) =>
            LET s == Seen(c)
                t == wait[c].pred
            IN IF wait[c].res[1] = "ok"
               THEN /\ s # <<>>
                    /\ F(t, s[Len(s)]) = Some(wait[c].res[2])
                    /\ \A i \in 1..(Len(s) - 1) : F(t, s[i]) = None
               ELSE \A i \in 1..Len(s) : F(t, s[i]) = None

C10_Step ==
    \A c \in Chans :
        /\ (wait'[c].res = <<"timeout">> /\ wait[c].res # <<"timeout">>)
           => wait[c].elapsed > wait[c].timeout
        /\ ( /\ WaitPass(c) \/ WaitWake(c)
             /\ queue[c] # <<>>
             /\ wait[c].elapsed <= wait[c].timeout )
           => /\ received'[c] = Append(received[c], Head(queue[c]))
              /\ F(wait[c].pred, Head(queue[c])) # None
                 => wait'[c].res =
                      <<"ok", F(wait[c].pred, Head(queue[c]))[1]>>

C10_WaitReturnsFirstMatch == []C10_FirstMatch /\ [][C10_Step]_vars

\* A wait that returned Ok after rejecting an earlier event, with a later
\* event left in the buffer.
C10_Witness ==
    \E c \in Chans :
        /\ wait[c].res[1] = "ok"
        /\ Len(Seen(c)) >= 2
        /\ queue[c] # <<>>


(***************************************************************************)
(* C11.  wait(p, timeout) fails with a timeout, not with a disconnect,     *)
(* when the Emitter stays alive for the whole wait and no event accepted   *)
(* by p arrives in time.                                                   *)
(* As stated, for every subscription, pruned ones included: a wait that    *)
(* has returned a disconnect while a clone of the Emitter is still alive   *)
(* (clones are never revived, so one was alive all through the wait).      *)
(***************************************************************************)
C11_TimeoutWhileEmitterAlive ==
    \A c \in Chans :
        wait[c].res = <<"disconnected">> => alive = {}

(***************************************************************************)
(* C11 as amended: the failure is a timeout whenever the sender of the     *)
(* subscription stays in the registry for the whole wait (the Emitter is   *)
(* alive and no emit has pruned the subscriber).  A failure returned while *)
(* the sender is registered is a timeout, returned once more than the      *)
(* timeout has elapsed; a disconnect is returned only when the sender is   *)
(* gone and the buffer is empty, which is what a pruned subscription gets  *)
(* although the Emitter lives.                                             *)
(***************************************************************************)
C11_DisconnectNeedsNoSender ==
    \A c \in Chans :
        wait[c].res = <<"disconnected">> => ~TxAlive(c)

C11_Step ==
    \A c \in Chans :
        (cpc[c] \in {"wait", "blocked"} /\ cpc'[c] = "idle") =>
            /\ (TxAlive(c) /\ wait'[c].res[1] # "ok")
               => /\ wait'[c].res = <<"timeout">>
                  /\ wait[c].elapsed > wait[c].timeout
            /\ wait'[c].res = <<"disconnected">>
               => /\ ~TxAlive(c)
                  /\ queue[c] = <<>>

C11_TimeoutWhileRegistered ==
    []C11_DisconnectNeedsNoSender /\ [][C11_Step]_vars

\* A registered subscriber, its Emitter alive, whose wait has rejected an
\* event and then timed out.
C11_Witness ==
    \E c \in Chans :
        /\ wait[c].res = <<"timeout">>
        /\ TxAlive(c)
        /\ alive = Producers
        /\ Len(Seen(c)) >= 1


(***************************************************************************)
(* C12.  wait(p, timeout) fails with a disconnect, distinct from the       *)
(* timeout failure, when the producing side is destroyed before an event   *)
(* accepted by p arrived, although the timeout has not elapsed: it does    *)
(* not stay blocked until the timeout, and it reports the disconnect only  *)
(* after the events still buffered have been received and rejected by p.   *)
(***************************************************************************)
\* Destroying the Emitter (its last clone) drops every sender.
C12_DestroyedClosesAll == alive = {} => subscribers = <<>>

\* A wait parked on a channel without sender is woken.
C12_WakesOnDisconnect ==
    \A c \in Chans :
        (cpc[c] = "blocked" /\ ~TxAlive(c)) => ENABLED WaitWake(c)

C12_Step ==
    \A c \in Chans :
        (cpc[c] \in {"wait", "blocked"} /\ cpc'[c] # cpc[c]) =>
            \* within the budget, an empty channel without sender ends the
            \* wait at once, with the disconnect
            /\ ( /\ ~TxAlive(c)
                 /\ queue[c] = <<>>
                 /\ wait[c].elapsed <= wait[c].timeout )
               => /\ cpc'[c] = "idle"
                  /\ wait'[c].res = <<"disconnected">>
            \* while events are buffered the disconnect is not reported
            /\ queue[c] # <<>> => wait'[c].res # <<"disconnected">>
            \* when it is, everything received was rejected
            /\ wait'[c].res = <<"disconnected">>
               => /\ wait'[c].res # <<"timeout">>
                  /\ queue'[c] = <<>>
                  /\ \A i \in 1..Len(Seen(c)) :
                         F(wait[c].pred, Seen(c)[i]) = None

C12_DisconnectBeforeTimeout ==
    /\ [](C12_DestroyedClosesAll /\ C12_WakesOnDisconnect)
    /\ [][C12_Step]_vars

\* The Emitter was destroyed with an event still buffered for a subscriber
\* that was never pruned; its wait received the event, rejected it, and
\* returned the disconnect.
C12_Witness ==
    \E c \in Chans :
        /\ wait[c].res = <<"disconnected">>
        /\ alive = {}
        /\ Len(Seen(c)) >= 1
        /\ Len(emitted) - subAt[c] <= MAX_PENDING_EVENTS


(***************************************************************************)
(* C13.  Iterating over an Events handle yields the events in order and    *)
(* ends exactly when the send side of its channel is closed (the Emitter   *)
(* destroyed, every clone dropped, or the subscriber pruned) and the       *)
(* buffered events have been yielded.  While a clone is alive and the      *)
(* subscriber registered the iteration does not end, and dropping one of   *)
(* several clones closes no channel.                                       *)
(***************************************************************************)
\* An iteration that has ended: no sender, nothing buffered, and what it
\* yielded is a run of the emits after its subscribe, in their order.
C13_EndedState ==
    \A c \in Chans :
        cpc[c] = "ended" =>
            /\ ~TxAlive(c)
            /\ queue[c] = <<>>
            /\ Len(received[c]) <= Len(EmittedSince(c))
            /\ received[c] = SubSeq(EmittedSince(c), 1, Len(received[c]))

\* What the next() of a running iteration can do.
C13_EndsExactlyWhenClosed ==
    \A c \in Chans :
        cpc[c] = "idle" =>
            /\ ENABLED IterEnd(c) <=> (~TxAlive(c) /\ queue[c] = <<>>)
            /\ ENABLED Recv(c) <=> queue[c] # <<>>

\* A sender leaves the registry with the last clone, or pruned by the emit
\* that holds the lock; the drop of a clone that is not the last changes
\* nothing in the registry.
C13_Step ==
    /\ \A c \in Chans :
           (TxAlive(c) /\ c \notin Range(subscribers')) =>
               \/ alive # {} /\ alive' = {}
               \/ /\ lock # 0
                  /\ pidx[lock] = Index(c)
                  /\ ~TrySendOk(c)
    /\ (alive' # alive /\ alive' # {}) => subscribers' = subscribers

C13_IterationEndsOnClose ==
    /\ [](C13_EndedState /\ C13_EndsExactlyWhenClosed)
    /\ [][C13_Step]_vars

\* Both clones of the Emitter were dropped one after the other; the
\* iteration of a subscriber that was never pruned yielded the events of
\* both producers and then ended.
C13_Witness ==
    \E c \in Chans :
        /\ cpc[c] = "ended"
        /\ alive = {}
        /\ Len(emitted) - subAt[c] <= MAX_PENDING_EVENTS
        /\ \A p \in Producers : \E i \in 1..Len(received[c]) :
               received[c][i][1] = p


\* What ret holds after a call that panicked on the poisoned registry.
Faults == {"subscribe panicked", "subscriptions panicked",
           "pending panicked"}

(***************************************************************************)
(* C14.  A thread that terminates abnormally while it holds the registry   *)
(* lock (the duplication of the event panics inside emit) poisons the      *)
(* registry: every later emit, subscribe, subscriptions and pending, on    *)
(* any clone, faults in its caller instead of returning normally; none     *)
(* continues silently.                                                     *)
(***************************************************************************)
\* On a poisoned registry no operation can run, and each call faults.
C14_CallsFault ==
    lock = POISONED =>
        /\ \A p \in Producers :
               /\ ~ENABLED EmitLock(p)
               /\ ~ENABLED EmitStep(p)
               /\ ~ENABLED EmitUnlock(p)
               /\ (p \in alive /\ ppc[p] = "idle" /\ pcount[p] < MaxEmits)
                  => ENABLED EmitFault(p)
        /\ ~ENABLED Subscribe
        /\ ~ENABLED Subscriptions
        /\ ~ENABLED Pending
        /\ ENABLED SubscriptionsFault
        /\ ENABLED PendingFault
        /\ nextChan <= MaxSubscribers => ENABLED SubscribeFault

C14_Step ==
    \* the poison comes from the holder of the lock, whose thread is gone
    /\ (lock # POISONED /\ lock' = POISONED)
       => /\ lock \in Producers
          /\ ppc'[lock] = "panicked"
    \* and stays: nothing is emitted, registered or read any more
    /\ lock = POISONED
       => /\ lock' = POISONED
          /\ subscribers' = subscribers
          /\ emitted' = emitted
          /\ nextChan' = nextChan
          /\ \A c \in Chans : IsSuffix(queue'[c], queue[c])
          /\ ret' = ret \/ ret'[1] \in Faults
          /\ \A p \in Producers :
                 ppc'[p] = ppc[p] \/ ppc'[p] = "panicked"

C14_PoisonedRegistryFaults == []C14_CallsFault /\ [][C14_Step]_vars

\* One producer panicked in the middle of its fan-out, with a subscriber
\* registered; the emit of the other producer and a later call of another
\* operation have faulted.
C14_Witness ==
    /\ lock = POISONED
    /\ subscribers # <<>>
    /\ \A p \in Producers : ppc[p] = "panicked"
    /\ ret[1] \in Faults


\* The number of times ev occurs in s.
Count(s, ev) == Cardinality({i \in 1..Len(s) : s[i] = ev})

(***************************************************************************)
(* C15.  Within one emit call, each subscriber registered when the call    *)
(* takes the lock gets exactly one of two outcomes: its buffer has room    *)
(* and its receiver is alive, one duplicate of the event is appended and   *)
(* it stays registered; or nothing is appended and it is removed.  The     *)
(* outcome depends on that subscriber's own state only: a full or dropped  *)
(* subscriber neither prevents the delivery to another nor causes the      *)
(* removal of another, and the relative order of those kept is unchanged.  *)
(***************************************************************************)
\* One call of the retain closure, on the subscriber c at the position of
\* the lock holder.
C15_Step ==
    (lock # 0 /\ lock' = lock
              /\ <<subscribers, pidx>>' # <<subscribers, pidx>>) =>
        LET p == lock
            c == subscribers[pidx[p]]
            other(x) == x # c
        IN /\ pidx[p] \in 1..Len(subscribers)
           /\ IF RxAlive(c) /\ Len(queue[c]) < MAX_PENDING_EVENTS
              THEN /\ queue'[c] = Append(queue[c], pev[p])
                   /\ subscribers' = subscribers
                   /\ pidx'[p] = pidx[p] + 1
              ELSE /\ queue'[c] = queue[c]
                   /\ subscribers' = SelectSeq(subscribers, other)
                   /\ pidx'[p] = pidx[p]
           /\ \A x \in Chans \ {c} : queue'[x] = queue[x]

\* While an emit runs: its event has been delivered, once, to the
\* subscribers before its position and to no other channel.
C15_OncePerSubscriber ==
    lock # 0 =>
        \A c \in Chans :
            /\ Count(Delivered(c), pev[lock]) >= 1
               => TxAlive(c) /\ Index(c) < pidx[lock]
            /\ (TxAlive(c) /\ Index(c) < pidx[lock] /\ cpc[c] # "dropped")
               => Count(Delivered(c), pev[lock]) = 1

C15_IndependentOutcomes ==
    []C15_OncePerSubscriber /\ [][C15_Step]_vars

\* A running emit has removed the first subscriber, whose buffer was full,
\* and then delivered its event to the second.
C15_Witness ==
    /\ lock # 0
    /\ subscribers = <<2>>
    /\ pidx[lock] = 2
    /\ cpc[1] = "idle"
    /\ received[1] = <<>>
    /\ Len(queue[1]) = MAX_PENDING_EVENTS
    /\ Len(emitted) = subAt[1] + MAX_PENDING_EVENTS + 1
    /\ Count(queue[1], pev[lock]) = 0
    /\ Count(Delivered(2), pev[lock]) = 1


(***************************************************************************)
(* C16.  In every pass of the loop of wait, when the remaining budget is   *)
(* zero or less the call fails with a timeout without attempting a         *)
(* receive; in particular, with exactly zero remaining it returns the      *)
(* timeout even if an event accepted by p is already buffered.             *)
(* As stated: a pass that starts with timeout - elapsed <= 0 and does      *)
(* anything returns the timeout failure and receives nothing.  It is       *)
(* stated of the passes that find some time elapsed, as those of the code  *)
(* do.                                                                     *)
(***************************************************************************)
C16_Step ==
    \A c \in Chans :
        ( /\ cpc[c] = "wait"
          /\ wait[c].elapsed > 0
          /\ wait[c].timeout - wait[c].elapsed <= 0
          /\ <<cpc[c], received[c]>>' # <<cpc[c], received[c]>> )
        => /\ wait'[c].res = <<"timeout">>
           /\ received'[c] = received[c]

C16_NoReceiveAtZero == [][C16_Step]_vars

(***************************************************************************)
(* C16 as amended: a pass fails with the timeout, without a receive, when  *)
(* the remaining budget is below zero, that is once more than the timeout  *)
(* has elapsed.  With exactly zero remaining the pass still makes a        *)
(* receive that does not block: a buffered event is taken and, if p        *)
(* accepts it, wait returns success.                                       *)
(***************************************************************************)
C16_AmendedStep ==
    \A c \in Chans :
        ( /\ cpc[c] = "wait"
          /\ <<cpc[c], received[c]>>' # <<cpc[c], received[c]>> )
        => IF wait[c].elapsed > wait[c].timeout
           THEN /\ wait'[c].res = <<"timeout">>
                /\ cpc'[c] = "idle"
                /\ received'[c] = received[c]
                /\ queue'[c] = queue[c]
           ELSE /\ wait'[c].res # <<"timeout">>
                /\ queue[c] # <<>>
                   => LET ev == Head(queue[c])
                      IN /\ received'[c] = Append(received[c], ev)
                         /\ queue'[c] = Tail(queue[c])
                         /\ F(wait[c].pred, ev) # None
                            => wait'[c].res
                                  = <<"ok", F(wait[c].pred, ev)[1]>>

\* A pass with a budget, be it zero, can act whenever an event is buffered.
C16_ReceivesWithinBudget ==
    \A c \in Chans :
        ( /\ cpc[c] = "wait"
          /\ wait[c].elapsed <= wait[c].timeout
          /\ queue[c] # <<>> )
        => ENABLED (WaitPass(c) /\ received'[c] # received[c])

C16_TimeoutBelowZero ==
    []C16_ReceivesWithinBudget /\ [][C16_AmendedStep]_vars

\* A wait with a positive timeout has received and rejected an event and
\* is at the start of a pass when exactly the timeout has elapsed; an event
\* its predicate accepts is buffered, and the pass returns success.
C16_Witness ==
    \E c \in Chans :
        /\ cpc[c] = "wait"
        /\ wait[c].timeout > 0
        /\ wait[c].elapsed = wait[c].timeout
        /\ Len(Seen(c)) >= 1
        /\ queue[c] # <<>>
        /\ F(wait[c].pred, Head(queue[c])) # None
        /\ ENABLED (WaitPass(c) /\ wait'[c].res[1] = "ok")


(***************************************************************************)
(* C17.  wait always terminates when time advances, for every pattern of   *)
(* arrivals (an endless stream of events that its predicate rejects        *)
(* included) and every timeout; after a bounded receive has timed out the  *)
(* next pass finds no budget left and returns the timeout; and wait never  *)
(* returns success for an event received after the budget was exhausted.   *)
(***************************************************************************)
\* Every call of wait returns.
C17_Terminates ==
    \A c \in Chans : (cpc[c] \in {"wait", "blocked"}) ~> (cpc[c] = "idle")

\* What ends a wait does not depend on the events that arrive: while a wait
\* has budget the clock can advance, the thread inside the loop can always
\* make its pass, and a receive parked beyond its deadline can always return.
C17_CanProceed ==
    \A c \in Chans :
        /\ (cpc[c] \in {"wait", "blocked"}
                /\ wait[c].elapsed <= wait[c].timeout) => ENABLED Tick
        /\ cpc[c] = "wait" => ENABLED WaitPass(c)
        /\ (cpc[c] = "blocked" /\ wait[c].elapsed > wait[c].timeout)
           => ENABLED WaitWake(c)

\* No step of a running wait renews its budget.
C17_BudgetStep ==
    \A c \in Chans :
        (cpc[c] \in {"wait", "blocked"} /\ cpc'[c] \in {"wait", "blocked"})
        => /\ wait'[c].timeout = wait[c].timeout
           /\ wait'[c].elapsed >= wait[c].elapsed

\* When the parked receive gives up with Timeout, the loop is left with no
\* budget; and the pass that finds none returns the timeout.
C17_NextPassStep ==
    \A c \in Chans :
        /\ (cpc[c] = "blocked" /\ cpc'[c] = "wait" /\ queue'[c] = queue[c])
           => wait'[c].elapsed > wait'[c].timeout
        /\ (cpc[c] = "wait" /\ wait[c].elapsed > wait[c].timeout
                            /\ cpc'[c] # cpc[c])
           => /\ wait'[c].res = <<"timeout">>
              /\ cpc'[c] = "idle"
              /\ queue'[c] = queue[c]

\* As stated: no step of a wait returns success once more than the timeout
\* has elapsed.
C17_SuccessStep ==
    \A c \in Chans :
        ( /\ cpc[c] \in {"wait", "blocked"}
          /\ wait[c].elapsed > wait[c].timeout )
        => wait'[c].res[1] # "ok"

C17_AmendedSuccessStep ==
    \A c \in Chans :
        (cpc[c] \in {"wait", "blocked"} /\ wait'[c].res[1] = "ok")
        => /\ queue[c] # <<>>
           /\ F(wait[c].pred, Head(queue[c])) # None
           /\ queue'[c] = Tail(queue[c])
           /\ cpc[c] = "wait" => wait[c].elapsed <= wait[c].timeout

C18_BoundedBacklog ==
    /\ \A c \in Chans : Len(queue[c]) \in 0..MAX_PENDING_EVENTS
    /\ pending <= subscriptions * MAX_PENDING_EVENTS
    /\ ret[1] = "pending" => ret[2] <= MaxSubscribers * MAX_PENDING_EVENTS

\* Two subscribers registered, both buffers filled to the capacity, and
\* pending() has returned the largest value it can.
C18_Witness ==
    /\ subscriptions = 2
    /\ \A i \in 1..2 : Len(queue[subscribers[i]]) = MAX_PENDING_EVENTS
    /\ ret = <<"pending", 2 * MAX_PENDING_EVENTS>>


(***************************************************************************)
(* C19.  emit holds the registry lock for its whole fan-out, so the emit   *)
(* and subscribe calls are serialized into one total order: (a) two        *)
(* subscribers that both receive events x and y receive them in the same   *)
(* relative order, also when x and y come from different producers; (b)    *)
(* for every subscriber still in the registry, the events it has consumed  *)
(* followed by the events in its queue are exactly the events of the emit  *)
(* calls serialized after its subscribe, with no gap.                      *)
(***************************************************************************)
\* One emit at a time, and it is the holder of the lock.
C19_Serialized ==
    \A p \in Producers : ppc[p] = "emit" <=> lock = p

\* (a)
C19_SameRelativeOrder ==
    \A c, d \in Chans :
        \A i, j \in 1..Len(Delivered(c)) :
            \A k, l \in 1..Len(Delivered(d)) :
                ( /\ i < j
                  /\ Delivered(c)[i] = Delivered(d)[k]
                  /\ Delivered(c)[j] = Delivered(d)[l] ) => k < l

\* (b) as stated, for every subscriber in the registry.  The emits
\* serialized after the subscribe are those from position subAt on; the one
\* that holds the lock has reached the subscribers before its position only.
C19_NoGapRegistered ==
    \A c \in Chans :
        TxAlive(c) =>
            Delivered(c) =
                IF lock # 0 /\ Index(c) >= pidx[lock]
                THEN SubSeq(emitted, subAt[c] + 1, Len(emitted) - 1)
                ELSE SubSeq(emitted, subAt[c] + 1, Len(emitted))

C19_NoGap ==
    \A c \in Chans :
        (TxAlive(c) /\ RxAlive(c)) =>
            Delivered(c) =
                IF lock # 0 /\ Index(c) >= pidx[lock]
                THEN SubSeq(emitted, subAt[c] + 1, Len(emitted) - 1)
                ELSE SubSeq(emitted, subAt[c] + 1, Len(emitted))

\* A handle that was dropped and is not pruned yet: what it consumed and
\* what its channel still holds, if the channel has kept it, is a run of
\* the emits after its subscribe.
C19_DroppedPrefix ==
    \A c \in Chans :
        (TxAlive(c) /\ cpc[c] = "dropped") =>
            /\ Len(Delivered(c)) <= Len(EmittedSince(c))
            /\ Delivered(c) = SubSeq(EmittedSince(c), 1, Len(Delivered(c)))

C20_ConsumedGone ==
    \A c \in Chans :
        /\ \A i \in 1..Len(received[c]) : Count(queue[c], received[c][i]) = 0
        /\ \A i \in 1..Len(received[c]) : \A k \in 1..Len(queue[c]) :
               Pos(received[c][i]) < Pos(queue[c][k])
        /\ \A k, l \in 1..Len(queue[c]) :
               k < l => Pos(queue[c][k]) < Pos(queue[c][l])

\* A wait takes events from the head of the channel, one at a time, and
\* never puts one back; the step that returns success has removed the
\* accepted event and left the rest of the channel as it was.
C20_Step ==
    \A c \in Chans :
        /\ received'[c] # received[c]
           => /\ cpc[c] \in {"wait", "blocked"}
              /\ queue[c] # <<>>
              /\ received'[c] = Append(received[c], Head(queue[c]))
              /\ queue'[c] = Tail(queue[c])
        /\ (cpc[c] \in {"wait", "blocked"} /\ wait'[c].res[1] = "ok")
           => /\ queue[c] # <<>>
              /\ F(wait[c].pred, Head(queue[c])) # None
              /\ queue'[c] = Tail(queue[c])
              /\ Seen(c)' = Append(Seen(c), Head(queue[c]))
        /\ ( /\ cpc[c] \in {"wait", "blocked"}
             /\ wait'[c].res[1] \in {"timeout", "disconnected"} )
           => /\ queue'[c] = queue[c]
              /\ received'[c] = received[c]

C20_WaitConsumes == []C20_ConsumedGone /\ [][C20_Step]_vars

\* A wait has returned success after it received and dropped an event its
\* predicate rejected; an event that arrived later is still queued.
C20_Witness ==
    \E c \in Chans :
        /\ wait[c].res[1] = "ok"
        /\ Len(Seen(c)) >= 2
        /\ queue[c] # <<>>

==============================================================================
